---- MODULE Spec2Model ----
(***************************************************************************)
(* Model of the oracle price engine:                                       *)
(*   - oracle_chain  (lib.rs): get_pyth_price, get_switchboard_price and   *)
(*     validate_price_consensus, the on-chain gate and consensus check;    *)
(*   - oracle_manager (main.rs): the ingestion task that polls the feed    *)
(*     and writes the cache (redis) and the history table (postgres).      *)
(*   - oracle_manager (api.rs): price_handler, the /price endpoint.        *)
(* The specifications share the variables; each leaves the other parts'    *)
(* variables at their initial values.                                      *)
(***************************************************************************)
EXTENDS Integers, Sequences, FiniteSets, TLC

VARIABLES
    \* ---- validate_price_consensus (lib.rs:62-77) ----
    vpcPc,      \* position in validate_price_consensus
    arg,        \* the Vec<PriceData> as passed by the caller
    prices,     \* the local `mut prices` (sorted in place)
    median,     \* the local `median`
    idx,        \* position of the `for p in prices.iter()` loop (1-based)
    result,     \* what the instruction ended with
    \* ---- get_pyth_price / get_switchboard_price (lib.rs:11-60) ----
    clock,      \* Clock::get()?.unix_timestamp
    config,     \* the OracleConfig account
    pythFeed,   \* the Pyth price account
    sbAgg,      \* the SwitchboardAggregator account's latest_result
    retPyth,    \* what get_pyth_price returned, on the accounts as they are
    retSb,      \* what get_switchboard_price returned, likewise
    \* ---- the ingestion task of oracle_manager (main.rs:118-178) ----
    taskPc,     \* position of the spawned task in its loop
    cycle,      \* iterations of the loop started so far
    wall,       \* SystemTime::now(), in seconds since the epoch
    resp,       \* the response body held by the task (`resp`, then `json`)
    payload,    \* the local `payload` (with `price`, `confidence`, `ts`)
    cache,      \* redis key oracle:price:BTC
    history,    \* rows of the table price_history, in insertion order
    served,     \* what get_btc_price answered, on the cache as it is
    health,     \* what get_oracle_health answered, on the cache and clock as they are
    \* ---- price_handler of oracle_manager (api.rs:16-25) ----
    apiPc,      \* position of price_handler
    apiP,       \* the local `p`
    apiS,       \* the local `s`
    apiRet,     \* the `consensus` it served
    \* ---- the build of oracle_chain ----
    overflowChecks, \* whether the program is compiled with overflow-checks
    wrapped     \* whether an i64 operation of the call has wrapped around

cvars == <<vpcPc, arg, prices, median, idx, result>>
gvars == <<clock, config, pythFeed, sbAgg, retPyth, retSb>>
ivars == <<taskPc, cycle, wall, resp, payload, cache, history, served, health>>

avars == <<apiPc, apiP, apiS, apiRet>>
bvars == <<overflowChecks, wrapped>>

vars == <<cvars, gvars, ivars, avars, bvars>>

----------------------------------------------------------------------------
(* Bounds of the model *)

\* longest price vector passed to validate_price_consensus
MaxLen == 3
\* the on-chain clock runs from 0 to MaxClock
MaxClock == 3
\* config.max_staleness ranges over 0..MaxStaleness
MaxStaleness == 1
\* the ingestion loop is followed for MaxCycles iterations
MaxCycles == 3
\* the wall clock runs from 0 to MaxWall
MaxWall == 31

----------------------------------------------------------------------------
(* Program constants *)

\* require!(prices.len() >= 2, ...)
MinSources == 2
\* ... * 10_000
BpsScale == 10000
\* require!(deviation <= 100, ...) // 1%
DeviationLimit == 100
\* if age < 30 { "healthy" } else { "stale" }
HealthyAge == 30

----------------------------------------------------------------------------
(* i64 arithmetic of lib.rs:72.  Every quote of QuoteValues keeps the      *)
(* intermediate results far inside the i64 range, so the machine           *)
(* operations coincide with the integer ones here.                         *)

\* i64::abs
I64Abs(a) == IF a < 0 THEN 0 - a ELSE a

\* i64 `/`: truncates toward zero (TLA+ \div rounds toward minus infinity);
\* the caller guards b # 0, where Rust panics
I64Div(a, b) ==
    LET q == I64Abs(a) \div I64Abs(b)
    IN  IF (a < 0) = (b < 0) THEN q ELSE 0 - q

\* ((p.price - median).abs() * 10_000) / median
Deviation(price, med) == I64Div(I64Abs(price - med) * BpsScale, med)

\* deviation <= 100
WithinLimit(dev) == dev <= DeviationLimit

----------------------------------------------------------------------------
(* PriceData, reduced to the fields validate_price_consensus can tell      *)
(* apart: price and expo (confidence, timestamp and source are carried     *)
(* along untouched and never read).                                        *)

PriceData(p, e) == [price |-> p, expo |-> e]

\* the quotes the callers pass: mantissas at expo -2 (100.00, 100.10, 101.00,
\* 110.00, their negatives, 1.00 and 0) and the same values 100 and 1 at expo 0
QuoteValues ==
    { PriceData(p, -2) : p \in {-11000, -10000, 0, 100, 10000, 10010, 10100, 11000} }
    \cup { PriceData(100, 0), PriceData(1, 0) }

\* every vector of at most n quotes
RECURSIVE VecsUpTo(_)
VecsUpTo(n) ==
    IF n = 0 THEN { <<>> }
    ELSE LET shorter == VecsUpTo(n - 1)
         IN  shorter \cup { Append(v, q) : v \in { w \in shorter : Len(w) = n - 1 },
                                            q \in QuoteValues }

Inputs == VecsUpTo(MaxLen)

----------------------------------------------------------------------------
(* prices.sort_by(|a, b| a.price.cmp(&b.price)): a stable sort on price     *)

\* insert q after the last element whose price is <= q.price
RECURSIVE InsertByPrice(_, _)
InsertByPrice(s, q) ==
    IF s = <<>> THEN <<q>>
    ELSE IF s[Len(s)].price <= q.price THEN Append(s, q)
    ELSE Append(InsertByPrice(SubSeq(s, 1, Len(s) - 1), q), s[Len(s)])

RECURSIVE SortFrom(_, _)
SortFrom(done, rest) ==
    IF rest = <<>> THEN done
    ELSE SortFrom(InsertByPrice(done, Head(rest)), Tail(rest))

SortByPrice(v) == SortFrom(<<>>, v)

\* a faulty variant of MedianIndex: the lower middle for an even count
MedianIndexLower(n) == ((n - 1) \div 2) + 1
\* prices[prices.len() / 2]: Rust indexes from 0, TLA+ sequences from 1
MedianIndex(n) == (n \div 2) + 1

----------------------------------------------------------------------------
(* validate_price_consensus, one action per statement                      *)

Pending == [kind |-> "Pending", value |-> 0]
Ok(v) == [kind |-> "Ok", value |-> v]
Err(e) == [kind |-> e, value |-> 0]
\* the program aborts (Rust panic: attempt to divide by zero)
Panic(what) == [kind |-> what, value |-> 0]

\* a faulty variant of RequireLen: one quote is taken as enough
RequireLenOne ==
    /\ vpcPc = "entry"
    /\ UNCHANGED <<gvars, ivars, avars, bvars>>
    /\ IF Len(prices) >= 1
       THEN /\ vpcPc' = "sort"
            /\ result' = result
       ELSE /\ vpcPc' = "done"
            /\ result' = Err("NotEnoughSources")
    /\ UNCHANGED <<arg, prices, median, idx>>

\* require!(prices.len() >= 2, OracleError::NotEnoughSources);
RequireLen ==
    /\ vpcPc = "entry"
    /\ UNCHANGED <<gvars, ivars, avars, bvars>>
    /\ IF Len(prices) >= MinSources
       THEN /\ vpcPc' = "sort"
            /\ result' = result
       ELSE /\ vpcPc' = "done"
            /\ result' = Err("NotEnoughSources")
    /\ UNCHANGED <<arg, prices, median, idx>>

\* prices.sort_by(|a, b| a.price.cmp(&b.price));
SortPrices ==
    /\ vpcPc = "sort"
    /\ UNCHANGED <<gvars, ivars, avars, bvars>>
    /\ prices' = SortByPrice(prices)
    /\ vpcPc' = "median"
    /\ UNCHANGED <<arg, median, idx, result>>

\* let median = prices[prices.len() / 2].price;
PickMedian ==
    /\ vpcPc = "median"
    /\ UNCHANGED <<gvars, ivars, avars, bvars>>
    /\ median' = prices[MedianIndex(Len(prices))].price
    /\ idx' = 1
    /\ vpcPc' = "loop"
    /\ UNCHANGED <<arg, prices, result>>

\* a faulty variant of CheckDeviation: a quote over the limit is dropped and
\* the median taken again from the quotes that are left
CheckDeviationRemedian ==
    /\ vpcPc = "loop"
    /\ UNCHANGED <<gvars, ivars, avars, bvars>>
    /\ idx <= Len(prices)
    /\ IF median = 0
       THEN /\ result' = Panic("DivideByZero")
            /\ vpcPc' = "done"
            /\ UNCHANGED <<idx, prices, median>>
       ELSE IF WithinLimit(Deviation(prices[idx].price, median))
       THEN /\ idx' = idx + 1
            /\ UNCHANGED <<vpcPc, result, prices, median>>
       ELSE LET left == SubSeq(prices, 1, idx - 1) \o SubSeq(prices, idx + 1, Len(prices))
            IN  /\ prices' = left
                /\ median' = IF left = <<>> THEN median
                              ELSE left[MedianIndex(Len(left))].price
                /\ UNCHANGED <<vpcPc, result, idx>>
    /\ UNCHANGED arg

\* a faulty variant of CheckDeviation: a quote over the limit is skipped and
\* the loop goes on
CheckDeviationSkip ==
    /\ vpcPc = "loop"
    /\ UNCHANGED <<gvars, ivars, avars, bvars>>
    /\ idx <= Len(prices)
    /\ IF median = 0
       THEN /\ result' = Panic("DivideByZero")
            /\ vpcPc' = "done"
            /\ idx' = idx
       ELSE /\ idx' = idx + 1
            /\ UNCHANGED <<vpcPc, result>>
    /\ UNCHANGED <<arg, prices, median>>

\* one iteration of `for p in prices.iter()`:
\*   let deviation = ((p.price - median).abs() * 10_000) / median;
\*   require!(deviation <= 100, OracleError::PriceDeviation);
CheckDeviation ==
    /\ vpcPc = "loop"
    /\ UNCHANGED <<gvars, ivars, avars, bvars>>
    /\ idx <= Len(prices)
    /\ IF median = 0
       THEN /\ result' = Panic("DivideByZero")
            /\ vpcPc' = "done"
            /\ idx' = idx
       ELSE IF WithinLimit(Deviation(prices[idx].price, median))
       THEN /\ idx' = idx + 1
            /\ UNCHANGED <<vpcPc, result>>
       ELSE /\ result' = Err("PriceDeviation")
            /\ vpcPc' = "done"
            /\ idx' = idx
    /\ UNCHANGED <<arg, prices, median>>

\* Ok(median)
ReturnMedian ==
    /\ vpcPc = "loop"
    /\ UNCHANGED <<gvars, ivars, avars, bvars>>
    /\ idx > Len(prices)
    /\ result' = Ok(median)
    /\ vpcPc' = "done"
    /\ UNCHANGED <<arg, prices, median, idx>>

----------------------------------------------------------------------------
(* validate_price_consensus at the full width of i64.  A value is written   *)
(* as the pair (hi, lo) that stands for hi * 2^62 + lo, with lo small (a    *)
(* few thousand, at most some 10^8 after the multiplication), so that two   *)
(* values compare by hi first and by lo second; i64 is -2^63 .. 2^63 - 1,   *)
(* that is (-2, 0) .. (2, -1).  Differences, negations and products by a    *)
(* constant are taken exactly on the pairs and then tested against the      *)
(* range; an operation that leaves the range aborts the program when it is  *)
(* built with overflow-checks and wraps modulo 2^64 when it is not.         *)

W64(h, l) == [hi |-> h, lo |-> l]
Zero64 == W64(0, 0)
\* i64::MIN and i64::MAX
I64Min == W64(-2, 0)
I64Max == W64(2, -1)

\* a.cmp(&b) == Less and a <= b
Less64(a, b) == a.hi < b.hi \/ (a.hi = b.hi /\ a.lo < b.lo)
LessEq64(a, b) == a = b \/ Less64(a, b)

\* the exact results, as integers
Sub64(a, b) == W64(a.hi - b.hi, a.lo - b.lo)
Neg64(a) == W64(0 - a.hi, 0 - a.lo)
Mul64(a, k) == W64(k * a.hi, k * a.lo)

\* the integer fits an i64
InRange64(a) ==
    \/ a.hi \in -1..1
    \/ a.hi = 2 /\ a.lo < 0
    \/ a.hi = -2 /\ a.lo >= 0

\* the i64 with the same residue modulo 2^64 = 4 * 2^62
Wrap64(a) ==
    LET r == a.hi % 4
    IN  W64(IF r = 3 THEN -1
            ELSE IF r = 2 THEN (IF a.lo < 0 THEN 2 ELSE -2)
            ELSE r,
            a.lo)

\* (p.price - median).abs() * 10_000, step by step; each step works on the
\* wrapped result of the step before
Diff64(price, med) == Sub64(price, med)
AbsOf64(d) == IF Less64(d, Zero64) THEN Neg64(d) ELSE d
Scaled64(a) == Mul64(a, BpsScale)

\* one of the three operations leaves the i64 range
Overflows64(price, med) ==
    LET d == Diff64(price, med)
        a == AbsOf64(Wrap64(d))
        s == Scaled64(Wrap64(a))
    IN  ~InRange64(d) \/ ~InRange64(a) \/ ~InRange64(s)

\* the value the division gets
Numerator64(price, med) ==
    Wrap64(Scaled64(Wrap64(AbsOf64(Wrap64(Diff64(price, med))))))

\* num / med <= 100 for the truncating i64 division and med # 0: the
\* quotient is at most 100 exactly when num / med < 101 over the rationals
WithinLimit64(num, med) ==
    LET bound == Mul64(med, DeviationLimit + 1)
    IN  IF Less64(Zero64, med) THEN Less64(num, bound) ELSE Less64(bound, num)

\* the prices at the edges of i64 and in the middle of it
Prices64 ==
    { I64Min, W64(-1, 0), W64(0, -1), Zero64, W64(0, 1),
      W64(0, 10000), W64(0, 10100), W64(1, 0), I64Max }

RECURSIVE Vecs64UpTo(_)
Vecs64UpTo(n) ==
    IF n = 0 THEN { <<>> }
    ELSE LET shorter == Vecs64UpTo(n - 1)
         IN  shorter \cup { Append(v, PriceData(p, 0)) :
                                v \in { w \in shorter : Len(w) = n - 1 },
                                p \in Prices64 }

Inputs64 == Vecs64UpTo(MaxLen)

RECURSIVE InsertByPrice64(_, _)
InsertByPrice64(s, q) ==
    IF s = <<>> THEN <<q>>
    ELSE IF LessEq64(s[Len(s)].price, q.price) THEN Append(s, q)
    ELSE Append(InsertByPrice64(SubSeq(s, 1, Len(s) - 1), q), s[Len(s)])

RECURSIVE SortFrom64(_, _)
SortFrom64(done, rest) ==
    IF rest = <<>> THEN done
    ELSE SortFrom64(InsertByPrice64(done, Head(rest)), Tail(rest))

SortByPrice64(v) == SortFrom64(<<>>, v)

\* prices.sort_by(|a, b| a.price.cmp(&b.price));
SortPrices64 ==
    /\ vpcPc = "sort"
    /\ UNCHANGED <<gvars, ivars, avars, bvars>>
    /\ prices' = SortByPrice64(prices)
    /\ vpcPc' = "median"
    /\ UNCHANGED <<arg, median, idx, result>>

\* one round of
\*   for p in prices.iter() {
\*       let deviation = ((p.price - median).abs() * 10_000) / median;
\*       require!(deviation <= 100, OracleError::PriceDeviation);
\*   }
CheckDeviation64 ==
    /\ vpcPc = "loop"
    /\ UNCHANGED <<gvars, ivars, avars>>
    /\ idx <= Len(prices)
    /\ LET price == prices[idx].price
           over == Overflows64(price, median)
       IN  IF over /\ overflowChecks
           THEN /\ result' = Panic("Overflow")
                /\ vpcPc' = "done"
                /\ UNCHANGED <<idx, wrapped>>
           ELSE IF median = Zero64
           THEN /\ result' = Panic("DivideByZero")
                /\ vpcPc' = "done"
                /\ wrapped' = (wrapped \/ over)
                /\ idx' = idx
           ELSE IF WithinLimit64(Numerator64(price, median), median)
           THEN /\ idx' = idx + 1
                /\ wrapped' = (wrapped \/ over)
                /\ UNCHANGED <<vpcPc, result>>
           ELSE /\ result' = Err("PriceDeviation")
                /\ vpcPc' = "done"
                /\ wrapped' = (wrapped \/ over)
                /\ idx' = idx
    /\ UNCHANGED <<arg, prices, median, overflowChecks>>

\* a call on i64 prices of any size, by a program built either way
InitConsensus64 ==
    /\ vpcPc = "entry"
    /\ arg \in Inputs64
    /\ prices = arg
    /\ median = Zero64
    /\ idx = 0
    /\ result = Pending
    /\ overflowChecks \in BOOLEAN
    /\ wrapped = FALSE

NextConsensus64 ==
    \/ RequireLen
    \/ SortPrices64
    \/ PickMedian
    \/ CheckDeviation64
    \/ ReturnMedian

----------------------------------------------------------------------------
(* get_pyth_price and get_switchboard_price                                *)

\* the instruction has not been called since the accounts or the clock changed
NoCall == [kind |-> "NoCall", price |-> 0, confidence |-> 0, expo |-> 0,
           timestamp |-> 0, source |-> "-"]
\* Ok(PriceData { price, confidence, expo, timestamp, source })
GateOk(p, c, e, t, src) ==
    [kind |-> "Ok", price |-> p, confidence |-> c, expo |-> e,
     timestamp |-> t, source |-> src]
\* Err(OracleError::...)
GateErr(e) == [NoCall EXCEPT !.kind = e]

\* price accounts: mantissa and self-reported uncertainty, both at expo -2
FeedPrices == {100, 1000000}
FeedConfs == {50, 200}
\* config.max_confidence ("basis points")
MaxConfidences == {100}

\* a faulty variant of Fresh: `<` for `<=`
FreshStrict(now, at, maxStaleness) == now - at < maxStaleness
\* clock.unix_timestamp - publish_time <= config.max_staleness
Fresh(now, at, maxStaleness) == now - at <= maxStaleness

\* price_data.conf <= config.max_confidence as i64
ConfidenceOk(conf, maxConfidence) == conf <= maxConfidence

\* get_pyth_price: get_current_price() is None unless the feed is trading
PythPrice(feed, cfg, now) ==
    IF ~feed.trading THEN GateErr("PriceUnavailable")
    ELSE IF ~Fresh(now, feed.publish_time, cfg.max_staleness)
    THEN GateErr("PriceStale")
    ELSE IF ~ConfidenceOk(feed.conf, cfg.max_confidence)
    THEN GateErr("ConfidenceTooHigh")
    ELSE GateOk(feed.price, feed.conf, feed.expo, feed.publish_time, "Pyth")

\* get_switchboard_price (std_dev is never negative here, so `as u64` keeps it)
SwitchboardPrice(res, cfg, now) ==
    IF ~Fresh(now, res.updated_at, cfg.max_staleness)
    THEN GateErr("PriceStale")
    ELSE GateOk(res.value, res.std_dev, res.scale, res.updated_at, "Switchboard")

GetPythPrice ==
    /\ UNCHANGED <<cvars, ivars, avars, bvars>>
    /\ retPyth' = PythPrice(pythFeed, config, clock)
    /\ UNCHANGED <<clock, config, pythFeed, sbAgg, retSb>>

GetSwitchboardPrice ==
    /\ UNCHANGED <<cvars, ivars, avars, bvars>>
    /\ retSb' = SwitchboardPrice(sbAgg, config, clock)
    /\ UNCHANGED <<clock, config, pythFeed, sbAgg, retPyth>>

\* the cluster's clock moves on
ClockTick ==
    /\ UNCHANGED <<cvars, ivars, avars, bvars>>
    /\ clock < MaxClock
    /\ clock' = clock + 1
    /\ retPyth' = NoCall
    /\ retSb' = NoCall
    /\ UNCHANGED <<config, pythFeed, sbAgg>>

\* the Pyth publishers write a new aggregate price, or stop trading
PythPublish ==
    /\ UNCHANGED <<cvars, ivars, avars, bvars>>
    /\ \E p \in FeedPrices, c \in FeedConfs, tr \in BOOLEAN :
          pythFeed' = [trading |-> tr, price |-> p, conf |-> c, expo |-> -2,
                       publish_time |-> clock]
    /\ retPyth' = NoCall
    /\ UNCHANGED <<clock, config, sbAgg, retSb>>

\* the Switchboard oracles write a new result
SwitchboardUpdate ==
    /\ UNCHANGED <<cvars, ivars, avars, bvars>>
    /\ \E v \in FeedPrices, sd \in FeedConfs :
          sbAgg' = [value |-> v, std_dev |-> sd, scale |-> -2, updated_at |-> clock]
    /\ retSb' = NoCall
    /\ UNCHANGED <<clock, config, pythFeed, retPyth>>

IdleGate ==
    /\ clock = 0
    /\ config = [max_staleness |-> 0, max_confidence |-> 100]
    /\ pythFeed = [trading |-> TRUE, price |-> 100, conf |-> 50, expo |-> -2,
                   publish_time |-> 0]
    /\ sbAgg = [value |-> 100, std_dev |-> 50, scale |-> -2, updated_at |-> 0]
    /\ retPyth = NoCall
    /\ retSb = NoCall

InitGate ==
    /\ clock = 0
    /\ config \in [max_staleness : 0..MaxStaleness, max_confidence : MaxConfidences]
    /\ pythFeed \in [trading : BOOLEAN, price : FeedPrices, conf : FeedConfs,
                     expo : {-2}, publish_time : {0}]
    /\ sbAgg \in [value : FeedPrices, std_dev : FeedConfs, scale : {-2},
                  updated_at : {0}]
    /\ retPyth = NoCall
    /\ retSb = NoCall

NextGate ==
    \/ GetPythPrice
    \/ GetSwitchboardPrice
    \/ ClockTick
    \/ PythPublish
    \/ SwitchboardUpdate

----------------------------------------------------------------------------
(* The ingestion task: tokio::spawn(async move { loop { ... } })           *)

\* decimal text of the Hermes response and what str::parse::<f64> makes of it
\* (Err for text that is no number)
NumberTexts == {"1000000", "1000100", "150", "n/a"}
ParseF64(text) ==
    CASE text = "1000000" -> [ok |-> TRUE, value |-> 1000000]
      [] text = "1000100" -> [ok |-> TRUE, value |-> 1000100]
      [] text = "150"     -> [ok |-> TRUE, value |-> 150]
      [] OTHER            -> [ok |-> FALSE, value |-> 0]

\* x * 10f64.powi(expo), kept exact as a count of 10^-4 units (expo is -4..0)
RECURSIVE Pow10(_)
Pow10(n) == IF n = 0 THEN 1 ELSE 10 * Pow10(n - 1)
ScaleF64(x, expo) == x * Pow10(expo + 4)

\* PythInnerPrice { price, conf, expo }
InnerPrices ==
    { [price |-> "1000000", conf |-> "150", expo |-> -4],
      [price |-> "1000100", conf |-> "150", expo |-> -4],
      [price |-> "n/a", conf |-> "150", expo |-> -4],
      [price |-> "1000000", conf |-> "n/a", expo |-> -4] }

\* what the feed can answer: a body that is no PythLatest (an error page, a
\* missing field), or PythLatest { parsed } with no or one entry
NoBody == [json |-> FALSE, parsed |-> <<>>]
Bodies ==
    { NoBody, [json |-> TRUE, parsed |-> <<>>] }
    \cup { [json |-> TRUE, parsed |-> <<ip>>] : ip \in InnerPrices }

\* how far the wall clock moves between two observations, in seconds
WallSteps == {10, 29}

\* PriceResponse { symbol, source, price, confidence, timestamp }
NoPayload == [symbol |-> "-", source |-> "-", price |-> 0, confidence |-> 0,
              timestamp |-> 0]
PriceResponse(price, confidence, ts) ==
    [symbol |-> "BTC", source |-> "Pyth", price |-> price,
     confidence |-> confidence, timestamp |-> ts]

\* no request has been answered since the cache (or the clock) changed
NotAsked == [status |-> "not_asked", age |-> 0]
\* json!({"status":"warming_up"})
WarmingUp == [status |-> "warming_up"]

\* the quotes of the response that the payload is made from: json.parsed[0]
UsedQuotes(body) == IF body.parsed = <<>> THEN <<>> ELSE <<body.parsed[1]>>

\* a faulty variant of SendRequest: a failed fetch deletes the cached value
SendRequestClears ==
    /\ UNCHANGED <<cvars, gvars, avars, bvars>>
    /\ taskPc = "send"
    /\ \E ok \in BOOLEAN :
          IF ok
          THEN /\ \E b \in Bodies : resp' = b
               /\ taskPc' = "json"
               /\ UNCHANGED <<cache, served, health>>
          ELSE /\ resp' = NoBody
               /\ taskPc' = "sleep"
               /\ cache' = NoPayload
               /\ served' = NotAsked
               /\ health' = NotAsked
    /\ UNCHANGED <<cycle, wall, payload, history>>

\* http.get(..).send().await, then `if let Ok(resp) = res`
SendRequest ==
    /\ UNCHANGED <<cvars, gvars, avars, bvars>>
    /\ taskPc = "send"
    /\ \E ok \in BOOLEAN :
          IF ok
          THEN /\ \E b \in Bodies : resp' = b
               /\ taskPc' = "json"
          ELSE /\ resp' = NoBody
               /\ taskPc' = "sleep"
    /\ UNCHANGED <<cycle, wall, payload, cache, history, served, health>>

\* a faulty variant of ReadJson: an undecodable response is recorded in the
\* history table as a failed round
ReadJsonAudits ==
    /\ UNCHANGED <<cvars, gvars, avars, bvars>>
    /\ taskPc = "json"
    /\ IF resp.json
       THEN /\ taskPc' = "build"
            /\ history' = history
       ELSE /\ taskPc' = "sleep"
            /\ history' = Append(history, PriceResponse(0, 0, wall))
    /\ UNCHANGED <<cycle, wall, resp, payload, cache, served, health>>

\* if let Ok(json) = resp.json::<PythLatest>().await
ReadJson ==
    /\ UNCHANGED <<cvars, gvars, avars, bvars>>
    /\ taskPc = "json"
    /\ taskPc' = IF resp.json THEN "build" ELSE "sleep"
    /\ UNCHANGED <<cycle, wall, resp, payload, cache, history, served, health>>

\* let p = &json.parsed[0].price;  (panics when parsed is empty)
\* let price = p.price.parse::<f64>().unwrap() * 10f64.powi(p.expo);
\* let confidence = p.conf.parse::<f64>().unwrap() * 10f64.powi(p.expo);
\* let ts = SystemTime::now()...as_secs() as i64;  let payload = ...
BuildPayload ==
    /\ UNCHANGED <<cvars, gvars, avars, bvars>>
    /\ taskPc = "build"
    /\ IF resp.parsed = <<>>
       THEN /\ taskPc' = "panicked"
            /\ payload' = payload
       ELSE LET p == resp.parsed[1]
                price == ParseF64(p.price)
                conf == ParseF64(p.conf)
            IN  IF price.ok /\ conf.ok
                THEN /\ payload' = PriceResponse(ScaleF64(price.value, p.expo),
                                                 ScaleF64(conf.value, p.expo), wall)
                     /\ taskPc' = "connect"
                ELSE /\ taskPc' = "panicked"
                     /\ payload' = payload
    /\ UNCHANGED <<cycle, wall, resp, cache, history, served, health>>

\* let mut redis = redis_client.get_connection().unwrap();
RedisConnect ==
    /\ UNCHANGED <<cvars, gvars, avars, bvars>>
    /\ taskPc = "connect"
    /\ \E ok \in BOOLEAN : taskPc' = IF ok THEN "set" ELSE "panicked"
    /\ UNCHANGED <<cycle, wall, resp, payload, cache, history, served, health>>

\* a faulty variant of RedisSet: the fields are stored one by one, and the
\* timestamp is still the old one when the step ends
RedisSetTorn ==
    /\ UNCHANGED <<cvars, gvars, avars, bvars>>
    /\ taskPc = "set"
    /\ \E ok \in BOOLEAN :
          IF ok
          THEN /\ cache' = [payload EXCEPT !.timestamp = cache.timestamp]
               /\ taskPc' = "insert"
               /\ served' = NotAsked
               /\ health' = NotAsked
          ELSE /\ cache' = cache
               /\ taskPc' = "panicked"
               /\ UNCHANGED <<served, health>>
    /\ UNCHANGED <<cycle, wall, resp, payload, history>>

\* redis.set("oracle:price:BTC", serde_json::to_string(&payload).unwrap()).unwrap();
RedisSet ==
    /\ UNCHANGED <<cvars, gvars, avars, bvars>>
    /\ taskPc = "set"
    /\ \E ok \in BOOLEAN :
          IF ok
          THEN /\ cache' = payload
               /\ taskPc' = "insert"
               /\ served' = NotAsked
               /\ health' = NotAsked
          ELSE /\ cache' = cache
               /\ taskPc' = "panicked"
               /\ UNCHANGED <<served, health>>
    /\ UNCHANGED <<cycle, wall, resp, payload, history>>

\* a faulty variant of InsertHistory: the INSERT is handed to a task of its own
\* and the loop goes on to the next fetch without awaiting it
InsertHistoryDetached ==
    /\ UNCHANGED <<cvars, gvars, avars, bvars>>
    /\ taskPc = "insert"
    /\ cycle < MaxCycles
    /\ cycle' = cycle + 1
    /\ taskPc' = "send"
    /\ resp' = NoBody
    /\ payload' = NoPayload
    /\ UNCHANGED <<wall, cache, history, served, health>>

\* sqlx::query("INSERT INTO price_history ...")...execute(&db_clone).await.unwrap();
InsertHistory ==
    /\ UNCHANGED <<cvars, gvars, avars, bvars>>
    /\ taskPc = "insert"
    /\ \E ok \in BOOLEAN :
          IF ok
          THEN /\ history' = Append(history, payload)
               /\ taskPc' = "sleep"
          ELSE /\ history' = history
               /\ taskPc' = "panicked"
    /\ UNCHANGED <<cycle, wall, resp, payload, cache, served, health>>

\* tokio::time::sleep(Duration::from_millis(400)).await; then the next iteration
Sleep ==
    /\ UNCHANGED <<cvars, gvars, avars, bvars>>
    /\ taskPc = "sleep"
    /\ cycle < MaxCycles
    /\ cycle' = cycle + 1
    /\ taskPc' = "send"
    /\ resp' = NoBody
    /\ payload' = NoPayload
    /\ UNCHANGED <<wall, cache, history, served, health>>

\* a faulty variant of WallTick: the clock read by SystemTime::now() can also
\* be set back
WallTickBack ==
    /\ UNCHANGED <<cvars, gvars, avars, bvars>>
    /\ \E d \in WallSteps :
          \/ /\ wall + d <= MaxWall
             /\ wall' = wall + d
          \/ /\ wall - d >= 0
             /\ wall' = wall - d
    /\ health' = NotAsked
    /\ UNCHANGED <<taskPc, cycle, resp, payload, cache, history, served>>

\* wall-clock time passes: 10 or 29 seconds
WallTick ==
    /\ UNCHANGED <<cvars, gvars, avars, bvars>>
    /\ \E d \in WallSteps :
          /\ wall + d <= MaxWall
          /\ wall' = wall + d
    /\ health' = NotAsked
    /\ UNCHANGED <<taskPc, cycle, resp, payload, cache, history, served>>

\* get_btc_price: the cached JSON, or {"status":"warming_up"} when the key is
\* missing
BtcPrice(cached) == IF cached = NoPayload THEN WarmingUp ELSE cached

GetBtcPrice ==
    /\ UNCHANGED <<cvars, gvars, avars, bvars>>
    /\ taskPc # "unspawned"
    /\ served' = BtcPrice(cache)
    /\ UNCHANGED <<taskPc, cycle, wall, resp, payload, cache, history, health>>

\* a faulty variant of OracleHealth: `<=` for `<`
OracleHealthLate(cached, now) ==
    IF cached = NoPayload THEN [status |-> "no_data", age |-> 0]
    ELSE LET age == now - cached.timestamp
         IN  [status |-> IF age <= HealthyAge THEN "healthy" ELSE "stale", age |-> age]

\* get_oracle_health:
\*   let age = SystemTime::now()...as_secs() as i64 - p.timestamp;
\*   "status": if age < 30 { "healthy" } else { "stale" }
\* and {"status": "no_data"} when the key is missing or is no PriceResponse
OracleHealth(cached, now) ==
    IF cached = NoPayload THEN [status |-> "no_data", age |-> 0]
    ELSE LET age == now - cached.timestamp
         IN  [status |-> IF age < HealthyAge THEN "healthy" ELSE "stale", age |-> age]

GetOracleHealth ==
    /\ UNCHANGED <<cvars, gvars, avars, bvars>>
    /\ taskPc # "unspawned"
    /\ health' = OracleHealth(cache, wall)
    /\ UNCHANGED <<taskPc, cycle, wall, resp, payload, cache, history, served>>

\* the task is not spawned
IdleIngest ==
    /\ taskPc = "unspawned"
    /\ cycle = 0
    /\ wall = 0
    /\ resp = NoBody
    /\ payload = NoPayload
    /\ cache = NoPayload
    /\ history = <<>>
    /\ served = NotAsked
    /\ health = NotAsked

\* the task as spawned: redis holds no key yet (NoPayload), the table is empty
InitIngest ==
    /\ taskPc = "send"
    /\ cycle = 1
    /\ wall = 0
    /\ resp = NoBody
    /\ payload = NoPayload
    /\ cache = NoPayload
    /\ history = <<>>
    /\ served = NotAsked
    /\ health = NotAsked

NextIngest ==
    \/ SendRequest
    \/ ReadJson
    \/ BuildPayload
    \/ RedisConnect
    \/ RedisSet
    \/ InsertHistory
    \/ Sleep
    \/ WallTick
    \/ GetBtcPrice
    \/ GetOracleHealth

----------------------------------------------------------------------------
(* The specifications                                                      *)

----------------------------------------------------------------------------
(* price_handler of api.rs.  An f64 is written as its number of 1/10000ths. *)
(* Every mock price below is a multiple of 0.25 near 100, so the f64 sum    *)
(* and the halving are exact and the count of 1/10000ths is an integer.     *)

\* fetch_pyth_price: 100.0 + random_range(-1.0..1.0)
PythMocks == {990000, 1000000, 1002500, 1005000, 1007500}
\* fetch_switchboard_price: 100.0 + random_range(-1.5..1.5)
SwitchboardMocks == {985000, 1000000, 1002500, 1005000, 1012500}

\* let consensus = (p + s) / 2.0;
HandlerConsensus(p, s) == (p + s) \div 2

\* price_handler: draws both prices and serves their mean
PriceHandler ==
    /\ UNCHANGED <<cvars, gvars, ivars, bvars>>
    /\ apiPc = "entry"
    /\ \E p \in PythMocks, s \in SwitchboardMocks :
          /\ apiP' = p
          /\ apiS' = s
          /\ apiRet' = HandlerConsensus(p, s)
    /\ apiPc' = "served"

\* validate_price_consensus is called with the two prices the handler used,
\* as mantissas at expo -4
VerifyServed ==
    /\ UNCHANGED <<gvars, ivars, bvars>>
    /\ apiPc = "served"
    /\ vpcPc = "done"
    /\ arg' = <<PriceData(apiP, -4), PriceData(apiS, -4)>>
    /\ prices' = arg'
    /\ vpcPc' = "entry"
    /\ apiPc' = "verified"
    /\ UNCHANGED <<median, idx, result, apiP, apiS, apiRet>>

\* price_handler is called
InitApi ==
    /\ apiPc = "entry"
    /\ apiP = 0
    /\ apiS = 0
    /\ apiRet = 0

\* price_handler is not called
IdleApi ==
    /\ apiPc = "idle"
    /\ apiP = 0
    /\ apiS = 0
    /\ apiRet = 0

\* the i64 operations are taken as exact: no input comes near the i64 bounds
IdleBuild ==
    /\ overflowChecks = TRUE
    /\ wrapped = FALSE

IdleConsensus ==
    /\ vpcPc = "done"
    /\ arg = <<>>
    /\ prices = <<>>
    /\ median = 0
    /\ idx = 0
    /\ result = Pending

InitConsensus ==
    /\ vpcPc = "entry"
    /\ arg \in Inputs
    /\ prices = arg
    /\ median = 0
    /\ idx = 0
    /\ result = Pending

NextConsensus ==
    \/ RequireLen
    \/ SortPrices
    \/ PickMedian
    \/ CheckDeviation
    \/ ReturnMedian

\* a call of validate_price_consensus on any input
StartConsensus == InitConsensus /\ IdleGate /\ IdleIngest /\ IdleApi /\ IdleBuild
SpecConsensus == StartConsensus /\ [][NextConsensus]_vars

\* the two read instructions, on any accounts
StartGate == InitGate /\ IdleConsensus /\ IdleIngest /\ IdleApi /\ IdleBuild
SpecGate == StartGate /\ [][NextGate]_vars

\* the ingestion task of oracle_manager
StartIngest == InitIngest /\ IdleConsensus /\ IdleGate /\ IdleApi /\ IdleBuild
SpecIngest == StartIngest /\ [][NextIngest]_vars

\* price_handler serves a consensus, and validate_price_consensus is then
\* given the same two prices
NextAgree ==
    \/ PriceHandler
    \/ VerifyServed
    \/ RequireLen
    \/ SortPrices
    \/ PickMedian
    \/ CheckDeviation
    \/ ReturnMedian

StartAgree == InitApi /\ IdleConsensus /\ IdleGate /\ IdleIngest /\ IdleBuild
SpecAgree == StartAgree /\ [][NextAgree]_vars

\* a call of validate_price_consensus on prices over the whole i64 range
StartConsensus64 == InitConsensus64 /\ IdleGate /\ IdleIngest /\ IdleApi
SpecConsensus64 == StartConsensus64 /\ [][NextConsensus64]_vars

----------------------------------------------------------------------------
(* Claims about validate_price_consensus                                   *)

\* the call got past the length check and has picked its median
MedianPicked == vpcPc \in {"loop", "done"} /\ Len(arg) >= MinSources

\* m is the k-th smallest price of v (1-based), by counting, not by sorting
IsRank(m, v, k) ==
    /\ \E i \in 1..Len(v) : v[i].price = m
    /\ Cardinality({ i \in 1..Len(v) : v[i].price < m }) < k
    /\ Cardinality({ i \in 1..Len(v) : v[i].price <= m }) >= k

\* the deviation of the specification: |price - median| * 10000 / |median|,
\* truncated, against the limit of 100 bps
SpecWithin(price, med) ==
    /\ med # 0
    /\ (I64Abs(price - med) * BpsScale) \div I64Abs(med) <= DeviationLimit

AllWithin == \A i \in 1..Len(arg) : SpecWithin(arg[i].price, median)

\* C1 (as stated): with at least two quotes the median is the middle element
\* of the sorted prices for an odd count and the LOWER of the two middle
\* elements for an even count.
C1_LowerMiddle ==
    MedianPicked =>
        IF Len(arg) % 2 = 1
        THEN IsRank(median, arg, (Len(arg) + 1) \div 2)
        ELSE IsRank(median, arg, Len(arg) \div 2)

\* C1 (amended): with at least two quotes the median is the middle element of
\* the sorted prices for an odd count and the UPPER of the two middle elements
\* for an even count.
C1_UpperMiddle ==
    MedianPicked =>
        IF Len(arg) % 2 = 1
        THEN IsRank(median, arg, (Len(arg) + 1) \div 2)
        ELSE IsRank(median, arg, (Len(arg) \div 2) + 1)

\* an even count whose two middle prices differ, the greater one picked
C1_Witness ==
    /\ MedianPicked
    /\ arg = <<PriceData(10010, -2), PriceData(10000, -2)>>
    /\ median = 10010

\* C2: a quote set whose median is 0 ends with a reported failure status; the
\* operation never panics and never divides by zero.
C2_ZeroMedianReported ==
    (vpcPc = "done" /\ Len(arg) >= MinSources /\ median = 0) =>
        result.kind \in {"NotEnoughSources", "PriceDeviation"}

\* C3 (as stated): a quote over the deviation limit is rejected individually;
\* the round is Ok with the median exactly when at least min_sources quotes
\* are within the limit.
C3_PartialQuorum ==
    (vpcPc = "done" /\ Len(arg) >= MinSources) =>
        (result = Ok(median)
            <=> Cardinality({ i \in 1..Len(arg) : SpecWithin(arg[i].price, median) })
                    >= MinSources)

\* C3 (amended): for a positive median the round is Ok with the median exactly
\* when every quote is within 100 bps of it; one quote over the limit fails
\* the whole round with PriceDeviation, however many others are within it.
C3_AllOrNothing ==
    (vpcPc = "done" /\ Len(arg) >= MinSources /\ median > 0) =>
        IF AllWithin THEN result = Ok(median) ELSE result = Err("PriceDeviation")

\* 100.00, 100.10 and 110.00: two quotes within 100 bps of the median 100.10,
\* and the round fails
C3_Witness ==
    /\ vpcPc = "done"
    /\ arg = <<PriceData(10000, -2), PriceData(10010, -2), PriceData(11000, -2)>>
    /\ median = 10010
    /\ result = Err("PriceDeviation")

\* the value a quote denotes, in units of 10^-2 (every expo of QuoteValues
\* is -2 or 0)
AtCommonScale(q) == IF q.expo = 0 THEN q.price * 100 ELSE q.price

\* C8: quotes are rescaled to the least expo before they are compared, so
\* quotes that denote one (nonzero) value with different expo have zero
\* deviation and the round is Ok.
C8_CommonScale ==
    (/\ vpcPc = "done"
     /\ Len(arg) >= MinSources
     /\ \A i, j \in 1..Len(arg) : AtCommonScale(arg[i]) = AtCommonScale(arg[j])
     /\ AtCommonScale(arg[1]) # 0)
        => result.kind = "Ok"

\* C9: the median is taken once, from the full input, and every quote of the
\* input is judged against it: while the loop runs and after it, `median` is
\* the middle price of the full input; an Ok result is that median and was
\* reached with every quote of the input judged; and when every quote is
\* within the limit of that median the round is Ok with it.
C9_FixedMedian ==
    MedianPicked =>
        /\ IsRank(median, arg, (Len(arg) \div 2) + 1)
        /\ Len(prices) = Len(arg)
        /\ result.kind = "Ok" => (result.value = median /\ idx = Len(arg) + 1)
        /\ (vpcPc = "done" /\ AllWithin) => result = Ok(median)

\* three quotes, not all equal, all within the limit of their median
C9_Witness ==
    /\ vpcPc = "done"
    /\ arg = <<PriceData(10100, -2), PriceData(10000, -2), PriceData(10010, -2)>>
    /\ result = Ok(10010)

\* C10: the deviation is |price - median| * 10000 / |median|, never negative,
\* so a quote over the limit is rejected whatever the sign of the (nonzero)
\* median.
C10_SignedMedian ==
    (vpcPc = "done" /\ Len(arg) >= MinSources /\ median # 0 /\ ~AllWithin) =>
        result = Err("PriceDeviation")


----------------------------------------------------------------------------
(* Claims about the freshness and confidence gate                          *)

\* C6: the freshness gate accepts a quote whose age (now - observed_at) is
\* max_staleness and rejects one whose age is max_staleness + 1: a quote is
\* rejected as stale exactly when its age exceeds max_staleness, on the Pyth
\* path (an available price) and on the Switchboard path.
C6_FreshnessBoundary ==
    /\ (retPyth # NoCall /\ pythFeed.trading) =>
          (retPyth.kind = "PriceStale"
              <=> clock - pythFeed.publish_time > config.max_staleness)
    /\ retSb # NoCall =>
          (retSb.kind = "PriceStale"
              <=> clock - sbAgg.updated_at > config.max_staleness)

\* both paths accept a quote that is exactly max_staleness (> 0) old
C6_Witness ==
    /\ config.max_staleness > 0
    /\ clock - pythFeed.publish_time = config.max_staleness
    /\ clock - sbAgg.updated_at = config.max_staleness
    /\ retPyth.kind = "Ok"
    /\ retSb.kind = "Ok"

\* C7: a quote is rejected with ConfidenceTooHigh exactly when
\* confidence * 10000 > max_confidence_ratio * |price|, and every source's
\* quote goes through this gate before it is returned as accepted.
C7_ConfidenceRatio ==
    /\ retPyth.kind \in {"Ok", "ConfidenceTooHigh"} =>
          (retPyth.kind = "ConfidenceTooHigh"
              <=> pythFeed.conf * BpsScale
                    > config.max_confidence * I64Abs(pythFeed.price))
    /\ retSb.kind \in {"Ok", "ConfidenceTooHigh"} =>
          (retSb.kind = "ConfidenceTooHigh"
              <=> sbAgg.std_dev * BpsScale
                    > config.max_confidence * I64Abs(sbAgg.value))

----------------------------------------------------------------------------
(* Claims about the ingestion task                                         *)

\* C4: every value the ingestion loop writes to the cache is the result of a
\* consensus round with status Ok, derived from at least min_sources (>= 2)
\* gated quotes; never from a single source's quote.
C4_CacheFromConsensus ==
    taskPc = "insert" =>
        /\ Len(UsedQuotes(resp)) >= MinSources
        /\ cache.source # "Pyth"

\* C5: no single fetch, parse, cache-write or history-write error ends the
\* ingestion loop: after such an error the task is still running and goes on
\* to its next cycle.
C5_LoopSurvives == taskPc # "panicked"

\* C11: with fewer than min_sources quotes the operation returns the
\* insufficient-sources outcome at once: it never reaches the sort, the median
\* selection or the deviation loop (the median is never assigned, the loop
\* never entered), and it ends with NotEnoughSources.
C11_TooFewSources ==
    Len(arg) < MinSources =>
        /\ vpcPc \in {"entry", "done"}
        /\ prices = arg /\ median = 0 /\ idx = 0
        /\ vpcPc = "done" => result = Err("NotEnoughSources")
        /\ vpcPc = "entry" => result = Pending

\* a single quote, refused
C11_Witness ==
    /\ arg = <<PriceData(10000, -2)>>
    /\ vpcPc = "done"
    /\ result = Err("NotEnoughSources")

\* C12: a cycle that does not publish (failed fetch, undecodable response)
\* leaves the cache entry as it was: the cache changes only in the step that
\* sets it to the payload of the running cycle, and what get_btc_price
\* answers is the cached value, so after any run of failed cycles a reader
\* sees the value of the last cycle that published.
C12_FailedCycleKeepsCache ==
    /\ [](served \in {NotAsked, BtcPrice(cache)})
    /\ [][cache' # cache =>
            (taskPc = "set" /\ taskPc' = "insert" /\ cache' = payload)]_vars

\* the second cycle failed to fetch or decode; the reader still gets the value
\* the first cycle published
C12_Witness ==
    /\ cycle = 2
    /\ taskPc = "sleep"
    /\ resp = NoBody
    /\ cache # NoPayload
    /\ served = cache

\* C13 (as stated): every cycle, also one that does not end with an Ok result,
\* appends one History record: when a cycle is over the number of records is
\* the number of completed cycles.
C13_RecordPerCycle == taskPc = "sleep" => Len(history) = cycle

\* C13 (amended): a cycle that does not publish appends no History record: a
\* row is appended only by the INSERT that follows the cache write, with the
\* values just cached, so there are at most as many rows as cycles.
C13_RecordPerPublish ==
    /\ [](Len(history) <= cycle)
    /\ [][history' # history =>
            (/\ taskPc = "insert" /\ taskPc' = "sleep"
             /\ history' = Append(history, cache))]_vars

\* the first cycle published, the second failed and left no row
C13_Witness ==
    /\ cycle = 2
    /\ taskPc = "sleep"
    /\ resp = NoBody
    /\ Len(history) = 1

WholeResults == {payload} \cup { history[i] : i \in 1..Len(history) }

\* C15: a reader running beside the ingestion loop gets the complete previous
\* result or the complete new one, never fields of two cycles: the cached
\* value, and what get_btc_price answered, is always one cycle's whole
\* payload (or nothing yet).
C15_AtomicReplace ==
    /\ cache \in {NoPayload} \cup WholeResults
    /\ served \in {NotAsked, WarmingUp} \cup WholeResults

\* a read between the cache write and the INSERT of a later cycle: the new
\* value, whole, which differs from the previous one
C15_Witness ==
    /\ taskPc = "insert"
    /\ history # <<>>
    /\ cache # history[Len(history)]
    /\ served = cache

\* every step of the running cycle is over: the fetch failed, or the body
\* could not be decoded, or the payload was cached and inserted
CycleSettled ==
    \/ resp = NoBody
    \/ ~resp.json
    \/ /\ payload # NoPayload
       /\ cache = payload
       /\ history # <<>>
       /\ history[Len(history)] = payload

\* C16: cycles never overlap: the cycle counter moves only by the step from
\* the sleep to the next fetch, one cycle at a time, and only when the fetch,
\* the cache write and the history insert of the running cycle have completed
\* or the cycle has failed.
C16_NoOverlap ==
    [][cycle' # cycle => (/\ taskPc = "sleep" /\ taskPc' = "send"
                          /\ cycle' = cycle + 1
                          /\ CycleSettled)]_vars

\* the second cycle's fetch has answered, after a first cycle that published
C16_Witness == cycle = 2 /\ taskPc = "json" /\ history # <<>> /\ cache = history[1]

\* C18: when a cycle has ended, or the loop has stopped, with a value in the
\* cache, the last history row carries that value.
C18_CacheHasRecord ==
    (taskPc \in {"sleep", "panicked"} /\ cache # NoPayload) =>
        (history # <<>> /\ history[Len(history)] = cache)

\* the cached value is HealthyAge seconds old or older at the current time
CacheExpired == cache # NoPayload /\ wall - cache.timestamp >= HealthyAge

\* C19: what get_oracle_health answered is "no_data" exactly when the cache
\* is empty, else "healthy" exactly when the cached timestamp is less than 30
\* seconds behind the current time, else "stale"; and a cached value that has
\* expired stays expired as long as no publish replaces it.
C19_StalenessDetectable ==
    /\ [](health # NotAsked =>
            /\ health.status = "no_data" <=> cache = NoPayload
            /\ health.status = "stale" <=> CacheExpired
            /\ health.status = "healthy" <=> (cache # NoPayload /\ ~CacheExpired))
    /\ [][(CacheExpired /\ cache' = cache) => CacheExpired']_vars

\* the loop has stopped after a publish, and the health lookup made 30 seconds
\* after that publish answers "stale"
C19_Witness ==
    /\ taskPc = "panicked"
    /\ cache # NoPayload
    /\ health.status = "stale"
    /\ health.age = HealthyAge

----------------------------------------------------------------------------
(* Claims about price_handler                                              *)

\* C17: the consensus price_handler served equals the value
\* validate_price_consensus returns for the same two prices.
C17_SameConsensus ==
    (apiPc = "verified" /\ vpcPc = "done") => result = Ok(apiRet)

----------------------------------------------------------------------------
(* Claims about the i64 arithmetic of validate_price_consensus              *)

\* C20: on i64 prices of any size the subtraction, the absolute value and the
\* multiplication by 10000 stay inside i64: the call never aborts with an
\* arithmetic overflow and never compares a wrapped deviation.
C20_NoOverflow == result # Panic("Overflow") /\ ~wrapped

====
